---------------------------- MODULE Spec2Model ----------------------------
(***************************************************************************)
(* A model of the swift-atomics C shims (_AtomicsShims.h, _AtomicsShims.c). *)
(*                                                                         *)
(* Part 1: the deferred symbol resolver of _AtomicsShims.c (the Apple      *)
(*         branch: dispatch_once_f + dlopen/dlsym), with any number of     *)
(*         threads calling _sa_retain_n / _sa_release_n, and the other     *)
(*         branch, which binds the two functions statically.               *)
(* Part 2: the atomic storage operations stamped out by _AtomicsShims.h,   *)
(*         each one atomic step on one storage location, and the double    *)
(*         word helpers.                                                   *)
(* Part 3: the header as the preprocessor expands it for a target: which   *)
(*         storage types and functions come to exist.                      *)
(***************************************************************************)
EXTENDS Integers, Sequences, FiniteSets, TLC

\* ------------------------------------------------------------------ bounds
\* Threads calling the resolver's entry points or operating on the storage.
NumThreads == 2
\* Calls to _sa_retain_n / _sa_release_n each thread makes.
MaxCalls == 1
\* Fetch-add calls each thread makes in the counter scenario.
MaxAdds == 64
\* __INTPTR_WIDTH__, the bits of uintptr_t.  32 or 64 on the targets; scaled
\* down so that a double word fits the model's integers.
IntptrWidth == 4

Threads == 1..NumThreads

VARIABLES
  \* ---- resolver (_AtomicsShims.c) ----
  init_token,       \* static dispatch_once_t init_token
  swift_retain_n,   \* static void *(*swift_retain_n)(void *, uint32_t)
  swift_release_n,  \* static void *(*swift_release_n)(void *, uint32_t)
  handle,           \* _sa_initialize's local, per running thread
  resident,         \* whether libswiftCore.dylib is loaded in the process
  proc,             \* "running", "aborted" (abort()), "crashed" (call through NULL)
  pc,               \* each thread's position
  entry,            \* the entry point each thread is in: "retain", "release", "none"
  calls,            \* per thread: calls to an entry point that have returned
  retains,          \* per thread: invocations of the backing swift_retain_n
  releases,         \* per thread: invocations of the backing swift_release_n
  initCount,        \* times the body of _sa_initialize was entered
  waited,           \* threads that were ever blocked inside dispatch_once_f
  requested,        \* per thread: the calls it made to an entry point, in order
  invoked,          \* per thread: the backing calls made on its behalf, in order
  \* ---- atomic storage (_AtomicsShims.h) ----
  ty,               \* the swiftType of the storage location
  storage,          \* _sa_<swiftType>.value, a value of the storageType
  expected,         \* per thread: the caller's variable passed as cType *expected
  adds,             \* per thread: fetch-add calls made (the counter scenario)
  loaded,           \* the counter scenario's final load: {} until made, then {value}
  last,             \* the operation performed last, with its inputs and outputs
  given,            \* per thread: the value it passes as cType desired
  returned,         \* per thread: what its call returned: {} until it has, then {value}
  prepared,         \* the value _sa_prepare_<swiftType> was called with: {} or {value}
  lock_free,        \* what atomic_is_lock_free(&storage.value) answers on the target
  ndebug,           \* whether the build defines NDEBUG (assert expands to nothing)
  \* ---- the header as the preprocessor stamps it out ----
  target,           \* the predefined macros of the target configuration
  cursor,           \* the next of the header's type definitions to be expanded
  types,            \* the storage types defined so far (_sa_<swiftType>)
  functions         \* the functions defined so far

resolverVars == <<init_token, swift_retain_n, swift_release_n, handle, resident,
                  proc, pc, entry, calls, retains, releases, initCount, waited,
                  requested, invoked>>

callerVars == <<given, returned, prepared, lock_free, ndebug>>

stampVars == <<target, cursor, types, functions>>

storageVars == <<ty, storage, expected, adds, loaded, last, callerVars, stampVars>>

vars == <<resolverVars, storageVars>>

\* ------------------------------------------------- resolver: the environment
NULL == "NULL"
\* The image dlopen names.
LibSwiftCore == "/usr/lib/swift/libswiftCore.dylib"

\* The flags _sa_initialize passes to dlopen.
\* (Faulty variant: RTLD_NOLOAD left out, so dlopen loads a fresh image.)
DlopenFlagsLoading == {"RTLD_LAZY", "RTLD_GLOBAL"}
DlopenFlags == {"RTLD_LAZY", "RTLD_GLOBAL", "RTLD_NOLOAD"}

\* dlopen(path, flags): with RTLD_NOLOAD the image is never loaded; the handle
\* is NULL unless the image is already resident.  Result: the handle and
\* whether the image is resident afterwards.
Dlopen(path, flags, res) ==
  LET present == res \/ ("RTLD_NOLOAD" \notin flags)
  IN  [handle |-> IF present THEN path ELSE NULL, resident |-> present]

\* The names _sa_initialize resolves.
\* (Faulty variant: a misspelt name, which the image does not export.)
RetainSymbolTypo == "swift_retain"
RetainSymbol == "swift_retain_n"
ReleaseSymbol == "swift_release_n"

\* The symbols the Swift runtime image exports (its stable ABI).
Exports(h) == IF h = LibSwiftCore THEN {"swift_retain_n", "swift_release_n"} ELSE {}

\* dlsym(handle, name): the symbol's address (an address is written as the
\* name of the function that lives there), NULL when the image has no such symbol.
Dlsym(h, name) == IF name \in Exports(h) THEN name ELSE NULL

\* ------------------------------------------------ resolver: dispatch_once_f
\* What dispatch_once_f does with a caller, by the token's state: the first
\* caller runs the function, callers during the run wait, later callers pass.
\* Faulty variants, each a gate that is not a one-time gate:
\*   NoExclusion  a caller arriving during the run runs the function too;
\*   NoWait       a caller arriving during the run passes without waiting;
\*   EveryCall    the function is run again by callers arriving after it is done;
\*   AlwaysSlow   callers arriving after it is done are kept waiting.
GateOutcomeNoExclusion(token) ==
  CASE token = "Uninitialized" -> "run"
    [] token = "Initializing"  -> "run"
    [] token = "Ready"         -> "pass"
GateOutcomeNoWait(token) ==
  CASE token = "Uninitialized" -> "run"
    [] token = "Initializing"  -> "pass"
    [] token = "Ready"         -> "pass"
GateOutcomeEveryCall(token) ==
  CASE token = "Uninitialized" -> "run"
    [] token = "Initializing"  -> "wait"
    [] token = "Ready"         -> "run"
GateOutcomeAlwaysSlow(token) ==
  CASE token = "Uninitialized" -> "run"
    [] token = "Initializing"  -> "wait"
    [] token = "Ready"         -> "wait"
GateOutcome(token) ==
  CASE token = "Uninitialized" -> "run"
    [] token = "Initializing"  -> "wait"
    [] token = "Ready"         -> "pass"

\* ------------------------------------------------------ resolver: actions
\* What a caller passes as (void *object, uint32_t n): thread t adjusts the
\* reference count of its own object, in its k-th call by k.
ObjectOf(t) == <<"object", t>>
Request(t, e) == [entry |-> e, object |-> ObjectOf(t), n |-> calls[t] + 1]

\* void _sa_retain_n(void *object, uint32_t n): entry, up to the gate.
SaRetainN(t) ==
  /\ proc = "running" /\ pc[t] = "idle" /\ calls[t] < MaxCalls
  /\ pc' = [pc EXCEPT ![t] = "once"]
  /\ entry' = [entry EXCEPT ![t] = "retain"]
  /\ requested' = [requested EXCEPT ![t] = Append(@, Request(t, "retain"))]
  /\ UNCHANGED <<init_token, swift_retain_n, swift_release_n, handle, resident,
                 proc, calls, retains, releases, initCount, waited, invoked,
                 storageVars>>

\* void _sa_release_n(void *object, uint32_t n): entry, up to the gate.
SaReleaseN(t) ==
  /\ proc = "running" /\ pc[t] = "idle" /\ calls[t] < MaxCalls
  /\ pc' = [pc EXCEPT ![t] = "once"]
  /\ entry' = [entry EXCEPT ![t] = "release"]
  /\ requested' = [requested EXCEPT ![t] = Append(@, Request(t, "release"))]
  /\ UNCHANGED <<init_token, swift_retain_n, swift_release_n, handle, resident,
                 proc, calls, retains, releases, initCount, waited, invoked,
                 storageVars>>

\* dispatch_once_f(&init_token, NULL, _sa_initialize), the caller's arrival.
DispatchOnceF(t) ==
  /\ proc = "running" /\ pc[t] = "once"
  /\ LET o == GateOutcome(init_token) IN
       CASE o = "run" ->
              /\ init_token' = "Initializing"
              /\ pc' = [pc EXCEPT ![t] = "dlopen"]
              /\ initCount' = initCount + 1
              /\ UNCHANGED waited
         [] o = "wait" ->
              /\ pc' = [pc EXCEPT ![t] = "wait"]
              /\ waited' = waited \cup {t}
              /\ UNCHANGED <<init_token, initCount>>
         [] o = "pass" ->
              /\ pc' = [pc EXCEPT ![t] = "call"]
              /\ UNCHANGED <<init_token, initCount, waited>>
  /\ UNCHANGED <<swift_retain_n, swift_release_n, handle, resident, proc, entry,
                 calls, retains, releases, requested, invoked, storageVars>>

\* _sa_initialize: handle = dlopen(...).
InitDlopen(t) ==
  /\ proc = "running" /\ pc[t] = "dlopen"
  /\ LET r == Dlopen(LibSwiftCore, DlopenFlags, resident) IN
       /\ handle' = [handle EXCEPT ![t] = r.handle]
       /\ resident' = r.resident
  /\ pc' = [pc EXCEPT ![t] = "check"]
  /\ UNCHANGED <<init_token, swift_retain_n, swift_release_n, proc, entry,
                 calls, retains, releases, initCount, waited, requested, invoked, storageVars>>

\* _sa_initialize: if (handle == NULL) abort();
InitCheck(t) ==
  /\ proc = "running" /\ pc[t] = "check"
  /\ IF handle[t] = NULL
       THEN proc' = "aborted" /\ UNCHANGED pc
       ELSE pc' = [pc EXCEPT ![t] = "dlsym_retain"] /\ UNCHANGED proc
  /\ UNCHANGED <<init_token, swift_retain_n, swift_release_n, handle, resident,
                 entry, calls, retains, releases, initCount, waited, requested, invoked, storageVars>>

\* _sa_initialize: swift_retain_n = dlsym(handle, "swift_retain_n");
InitDlsymRetain(t) ==
  /\ proc = "running" /\ pc[t] = "dlsym_retain"
  /\ swift_retain_n' = Dlsym(handle[t], RetainSymbol)
  /\ pc' = [pc EXCEPT ![t] = "dlsym_release"]
  /\ UNCHANGED <<init_token, swift_release_n, handle, resident, proc, entry,
                 calls, retains, releases, initCount, waited, requested, invoked, storageVars>>

\* _sa_initialize: swift_release_n = dlsym(handle, "swift_release_n"); return.
\* (Faulty variant: OwnEntryOnly resolves swift_release_n only when the run was
\* triggered through _sa_release_n, as if each entry point set up its own pointer.)
InitDlsymReleaseOwnEntryOnly(t) ==
  /\ proc = "running" /\ pc[t] = "dlsym_release"
  /\ swift_release_n' = IF entry[t] = "release"
                          THEN Dlsym(handle[t], ReleaseSymbol) ELSE swift_release_n
  /\ pc' = [pc EXCEPT ![t] = "once_done"]
  /\ UNCHANGED <<init_token, swift_retain_n, handle, resident, proc, entry,
                 calls, retains, releases, initCount, waited, requested, invoked, storageVars>>
InitDlsymRelease(t) ==
  /\ proc = "running" /\ pc[t] = "dlsym_release"
  /\ swift_release_n' = Dlsym(handle[t], ReleaseSymbol)
  /\ pc' = [pc EXCEPT ![t] = "once_done"]
  /\ UNCHANGED <<init_token, swift_retain_n, handle, resident, proc, entry,
                 calls, retains, releases, initCount, waited, requested, invoked, storageVars>>

\* dispatch_once_f after the function returned: the token is marked done and
\* the callers blocked on it are released.
\* (Faulty variant: LostWakeup marks the token done and releases nobody.)
OnceDoneLostWakeup(t) ==
  /\ proc = "running" /\ pc[t] = "once_done"
  /\ init_token' = "Ready"
  /\ pc' = [pc EXCEPT ![t] = "call"]
  /\ UNCHANGED <<swift_retain_n, swift_release_n, handle, resident, proc, entry,
                 calls, retains, releases, initCount, waited, requested, invoked, storageVars>>
OnceDone(t) ==
  /\ proc = "running" /\ pc[t] = "once_done"
  /\ init_token' = "Ready"
  /\ pc' = [u \in Threads |-> IF u = t \/ pc[u] = "wait" THEN "call" ELSE pc[u]]
  /\ UNCHANGED <<swift_retain_n, swift_release_n, handle, resident, proc, entry,
                 calls, retains, releases, initCount, waited, requested, invoked, storageVars>>

\* The pointer an entry point calls through.
\* (Faulty variant: Swapped calls through the other entry point's pointer.)
TargetSwapped(e) == IF e = "retain" THEN swift_release_n ELSE swift_retain_n
Target(e) == IF e = "retain" THEN swift_retain_n ELSE swift_release_n

\* The call fn(object, n) made for a request: the entry point's own arguments
\* are handed on.
Invocation(fn, req) == [fn |-> fn, object |-> req.object, n |-> req.n]

\* swift_retain_n(object, n) / swift_release_n(object, n) through the static
\* pointer, then return.  A call through a null pointer ends the process.
BackingCall(t) ==
  /\ proc = "running" /\ pc[t] = "call"
  /\ IF Target(entry[t]) = NULL
       THEN /\ proc' = "crashed"
            /\ UNCHANGED <<pc, entry, calls, retains, releases, invoked>>
       ELSE /\ invoked' = [invoked EXCEPT ![t] =
                             Append(@, Invocation(Target(entry[t]),
                                                  requested[t][Len(requested[t])]))]
            /\ retains' = [retains EXCEPT ![t] =
                             @ + (IF Target(entry[t]) = "swift_retain_n" THEN 1 ELSE 0)]
            /\ releases' = [releases EXCEPT ![t] =
                             @ + (IF Target(entry[t]) = "swift_release_n" THEN 1 ELSE 0)]
            /\ calls' = [calls EXCEPT ![t] = @ + 1]
            /\ pc' = [pc EXCEPT ![t] = "idle"]
            /\ entry' = [entry EXCEPT ![t] = "none"]
            /\ UNCHANGED proc
  /\ UNCHANGED <<init_token, swift_retain_n, swift_release_n, handle, resident,
                 initCount, waited, requested, storageVars>>

\* The header part of a state in which its expansion is not followed.
StampUntouched ==
  /\ target = [os |-> "none"]
  /\ cursor = 0
  /\ types = {}
  /\ functions = {}

\* The callers' part of a state in which no scenario below uses it.
CallerUntouched ==
  /\ given = [t \in Threads |-> 0]
  /\ returned = [t \in Threads |-> {}]
  /\ prepared = {}
  /\ lock_free = TRUE
  /\ ndebug = FALSE

\* The storage part of a state in which no storage was prepared.
NoOp == [t |-> 0, op |-> "none"]
StorageUntouched ==
  /\ ty = "none"
  /\ storage = 0
  /\ expected = [t \in Threads |-> 0]
  /\ adds = [t \in Threads |-> 0]
  /\ loaded = {}
  /\ last = NoOp
  /\ CallerUntouched
  /\ StampUntouched

ThreadStep(t) ==
  \/ SaRetainN(t)
  \/ SaReleaseN(t)
  \/ DispatchOnceF(t)
  \/ InitDlopen(t)
  \/ InitCheck(t)
  \/ InitDlsymRetain(t)
  \/ InitDlsymRelease(t)
  \/ OnceDone(t)
  \/ BackingCall(t)

Init ==
  /\ init_token = "Uninitialized"
  /\ swift_retain_n = NULL
  /\ swift_release_n = NULL
  /\ handle = [t \in Threads |-> NULL]
  /\ resident \in BOOLEAN
  /\ proc = "running"
  /\ pc = [t \in Threads |-> "idle"]
  /\ entry = [t \in Threads |-> "none"]
  /\ calls = [t \in Threads |-> 0]
  /\ retains = [t \in Threads |-> 0]
  /\ releases = [t \in Threads |-> 0]
  /\ initCount = 0
  /\ waited = {}
  /\ requested = [t \in Threads |-> <<>>]
  /\ invoked = [t \in Threads |-> <<>>]
  /\ StorageUntouched

Next == \E t \in Threads : ThreadStep(t)

Spec == Init /\ [][Next]_vars

\* The scheduler runs every runnable thread eventually.
FairSpec == Spec /\ \A t \in Threads : WF_vars(ThreadStep(t))



\* ------------------------------------------- resolver: static binding
\* The other branch of _AtomicsShims.c (not __APPLE__ && __MACH__): the two
\* functions are declared extern and the linker binds the calls.
\* The address the linker binds an extern declaration to.
Linked(name) == name

\* void _sa_retain_n(void *object, uint32_t n) { swift_retain_n(object, n); }
SaRetainNStatic(t) ==
  /\ proc = "running" /\ pc[t] = "s_idle" /\ calls[t] < MaxCalls
  /\ LET req == Request(t, "retain") IN
       /\ requested' = [requested EXCEPT ![t] = Append(@, req)]
       /\ invoked' = [invoked EXCEPT ![t] =
                        Append(@, Invocation(Linked("swift_retain_n"), req))]
  /\ retains' = [retains EXCEPT ![t] = @ + 1]
  /\ calls' = [calls EXCEPT ![t] = @ + 1]
  /\ UNCHANGED <<init_token, swift_retain_n, swift_release_n, handle, resident,
                 proc, pc, entry, releases, initCount, waited, storageVars>>

\* void _sa_release_n(void *object, uint32_t n) { swift_release_n(object, n); }
SaReleaseNStatic(t) ==
  /\ proc = "running" /\ pc[t] = "s_idle" /\ calls[t] < MaxCalls
  /\ LET req == Request(t, "release") IN
       /\ requested' = [requested EXCEPT ![t] = Append(@, req)]
       /\ invoked' = [invoked EXCEPT ![t] =
                        Append(@, Invocation(Linked("swift_release_n"), req))]
  /\ releases' = [releases EXCEPT ![t] = @ + 1]
  /\ calls' = [calls EXCEPT ![t] = @ + 1]
  /\ UNCHANGED <<init_token, swift_retain_n, swift_release_n, handle, resident,
                 proc, pc, entry, retains, initCount, waited, storageVars>>

\* The static pointers, the token and the image do not exist in this build;
\* the variables keep their initial values.
StaticInit ==
  /\ init_token = "Uninitialized"
  /\ swift_retain_n = NULL
  /\ swift_release_n = NULL
  /\ handle = [t \in Threads |-> NULL]
  /\ resident = TRUE
  /\ proc = "running"
  /\ pc = [t \in Threads |-> "s_idle"]
  /\ entry = [t \in Threads |-> "none"]
  /\ calls = [t \in Threads |-> 0]
  /\ retains = [t \in Threads |-> 0]
  /\ releases = [t \in Threads |-> 0]
  /\ initCount = 0
  /\ waited = {}
  /\ requested = [t \in Threads |-> <<>>]
  /\ invoked = [t \in Threads |-> <<>>]
  /\ StorageUntouched

StaticNext == \E t \in Threads : SaRetainNStatic(t) \/ SaReleaseNStatic(t)

\* Either build: the lazy dynamic binding or the static binding.
BindingInit == Init \/ StaticInit

BindingNext == Next \/ StaticNext

BindingSpec == BindingInit /\ [][BindingNext]_vars

\* ---------------------------------------------------- storage: the types
\* SWIFTATOMIC_DEFINE_INTEGER_TYPE stamps the same functions for each integer
\* type; the model carries the two 8-bit ones, Bool, and DoubleWord.
IntegerTypes == {"Int8", "UInt8"}
StorageTypes == IntegerTypes \cup {"Bool", "DoubleWord"}

\* Bits of the storageType (bool holds 0 or 1).
Width(T) == CASE T = "Int8" -> 8 [] T = "UInt8" -> 8 [] T = "Bool" -> 1
IsSigned(T) == T = "Int8"

RECURSIVE Pow2(_)
Pow2(n) == IF n = 0 THEN 1 ELSE 2 * Pow2(n - 1)

\* The value of type T that the integer x converts to (two's complement, modulo 2^w).
Wrap(T, x) ==
  LET m == Pow2(Width(T))
  IN  IF IsSigned(T) THEN ((x + m \div 2) % m) - m \div 2 ELSE x % m

\* _sa_decode_dword: wraps a _sa_double_word_ctype in the _sa_dword struct.
SaDecodeDword(value) == [value |-> value]

\* SWIFTATOMIC_ENCODE_<swiftType>: (value), and (_value).value for DoubleWord.
Encode(T, v) == IF T = "DoubleWord" THEN v.value ELSE v
\* SWIFTATOMIC_DECODE_<swiftType>: (value), and _sa_decode_dword(_value) for DoubleWord.
Decode(T, r) == IF T = "DoubleWord" THEN SaDecodeDword(r) ELSE r

\* The cmpxchg variant SWIFTATOMIC_DEFINE_TYPE is instantiated with.
Variant(T) == IF T = "DoubleWord" THEN "COMPLEX" ELSE "SIMPLE"

\* All the values of a type's storageType.
Range(T) ==
  CASE T = "Int8"  -> (0 - Pow2(7))..(Pow2(7) - 1)
    [] T = "UInt8" -> 0..(Pow2(8) - 1)
    [] T = "Bool"  -> {0, 1}

\* Values of the cType callers pass in.
Values(T) ==
  CASE T = "Int8"       -> {-128, -1, 0, 1, 127}
    [] T = "UInt8"      -> {0, 1, 128, 255}
    [] T = "Bool"       -> {0, 1}
    [] T = "DoubleWord" -> {[value |-> 0], [value |-> 1], [value |-> 2]}

\* ------------------------------------------- storage: the C11 primitives
\* atomic_compare_exchange_{strong,weak}_explicit(obj, &exp, des, succ, fail):
\* compares *obj with exp; equal: *obj = des, true; else exp = *obj, false.
\* The weak form may fail although the values are equal (`spurious`).
\* Every memory ordering gives the same outcome on the one location.
\* Faulty variants: AlwaysWeak lets the strong form fail spuriously too;
\* Blind exchanges without comparing.
AtomicCompareExchangeAlwaysWeak(kind, obj, exp, des, spurious) ==
  IF obj = exp /\ ~spurious
    THEN [result |-> TRUE, obj |-> des, expected |-> exp]
    ELSE [result |-> FALSE, obj |-> obj, expected |-> obj]
AtomicCompareExchangeBlind(kind, obj, exp, des, spurious) ==
  IF ~(kind = "weak" /\ spurious)
    THEN [result |-> TRUE, obj |-> des, expected |-> exp]
    ELSE [result |-> FALSE, obj |-> obj, expected |-> obj]
AtomicCompareExchange(kind, obj, exp, des, spurious) ==
  IF obj = exp /\ ~(kind = "weak" /\ spurious)
    THEN [result |-> TRUE, obj |-> des, expected |-> exp]
    ELSE [result |-> FALSE, obj |-> obj, expected |-> obj]

\* Bitwise operations on w-bit unsigned values.
RECURSIVE BitOp(_, _, _, _)
BitOp(op, a, b, w) ==
  IF w = 0 THEN 0
  ELSE LET x == a % 2
           y == b % 2
           z == CASE op = "or"  -> IF x + y > 0 THEN 1 ELSE 0
                  [] op = "xor" -> (x + y) % 2
                  [] op = "and" -> x * y
       IN  z + 2 * BitOp(op, a \div 2, b \div 2, w - 1)

\* atomic_fetch_<op>_explicit(obj, operand, order): the value *obj is left with.
\* (Faulty variant: Lost leaves *obj as it was, the update is lost.)
\* (Faulty variant: Saturating stops add and sub at the ends of the range.)
AtomicFetchOpLost(T, op, obj, operand) == obj
AtomicFetchOpSaturating(T, op, obj, operand) ==
  LET m == Pow2(Width(T))
      lo == IF IsSigned(T) THEN 0 - m \div 2 ELSE 0
      hi == lo + m - 1
      clamp(x) == IF x < lo THEN lo ELSE IF x > hi THEN hi ELSE x
  IN  CASE op = "add" -> clamp(obj + operand)
        [] op = "sub" -> clamp(obj - operand)
        [] OTHER      -> Wrap(T, BitOp(op, obj % m, operand % m, Width(T)))
AtomicFetchOp(T, op, obj, operand) ==
  LET m == Pow2(Width(T)) IN
  CASE op = "add" -> Wrap(T, obj + operand)
    [] op = "sub" -> Wrap(T, obj - operand)
    [] OTHER      -> Wrap(T, BitOp(op, obj % m, operand % m, Width(T)))

\* The fetch operations stamped for a type (SWIFTATOMIC_DEFINE_INTEGER_TYPE,
\* and the three SWIFTATOMIC_INTEGER_FNS lines for Bool).
FetchOps(T) ==
  CASE T \in IntegerTypes -> {"add", "sub", "or", "xor", "and"}
    [] T = "Bool"         -> {"or", "xor", "and"}
    [] OTHER              -> {}

\* ------------------------------------------------ storage: double words
\* Conversion to uintptr_t and to _sa_double_word_ctype (twice as wide): both
\* unsigned, so a value is reduced modulo 2^bits.
ToUintptr(x) == x % Pow2(IntptrWidth)
ToDoubleWordCtype(x) == x % Pow2(2 * IntptrWidth)

\* x << n and x >> n on an unsigned type of the given width.
ShiftLeft(x, n, bits) == (x * Pow2(n)) % Pow2(bits)
ShiftRight(x, n) == x \div Pow2(n)

\* _sa_dword_create(high, low)
\* (Faulty variant: NarrowShift shifts before widening, in uintptr_t, where
\* the bits of high are shifted out.)
SaDwordCreateNarrowShift(high, low) ==
  [value |-> BitOp("or", ToDoubleWordCtype(ShiftLeft(high, IntptrWidth, IntptrWidth)),
                   ToDoubleWordCtype(low), 2 * IntptrWidth)]
SaDwordCreate(high, low) ==
  [value |-> BitOp("or", ShiftLeft(ToDoubleWordCtype(high), IntptrWidth, 2 * IntptrWidth),
                   ToDoubleWordCtype(low), 2 * IntptrWidth)]

\* _sa_dword_extract_high(value)
SaDwordExtractHigh(value) == ToUintptr(ShiftRight(value.value, IntptrWidth))

\* _sa_dword_extract_low(value)
SaDwordExtractLow(value) == ToUintptr(value.value)

\* ------------------------------------------------ storage: the shims
\* The orderings a function is stamped for (SWIFTATOMIC_LOAD_FNS, _STORE_FNS).
\* On the one location every ordering gives the same outcome.
LoadOrderings == {"relaxed", "acquire", "seq_cst"}
StoreOrderings == {"relaxed", "release", "seq_cst"}

\* _sa_prepare_<swiftType>(value): the storage's initial representation.
\* (Faulty variant: Zeroed leaves out the initializer.)
SaPrepareZeroed(T, value) == 0
SaPrepare(T, value) == Encode(T, value)

\* assert(condition) of <assert.h>: whether the program gets past it.  With
\* NDEBUG defined the macro expands to nothing and the condition is not looked at.
AssertPasses(nd, condition) == nd \/ condition

\* _sa_dispose_<swiftType>(storage)
SaDispose(T, obj) == Decode(T, obj)

\* _sa_load_<order>_<swiftType>(ptr)
SaLoad(T, obj) == Decode(T, obj)

\* _sa_store_<order>_<swiftType>(ptr, desired): the value stored.
\* (Faulty variant: WrongStorageType stamps a signed type with an unsigned
\* storageType, so the value is converted on the way in.)
SaStoreWrongStorageType(T, desired) ==
  IF T = "DoubleWord" THEN desired.value ELSE desired % Pow2(Width(T))
SaStore(T, desired) == Encode(T, desired)

\* _sa_exchange_<order>_<swiftType>(ptr, desired)
\* (Faulty variant: ReturnsNew hands back the value it has just written.)
SaExchangeReturnsNew(T, obj, desired) ==
  [ret |-> Decode(T, Encode(T, desired)), obj |-> Encode(T, desired)]
SaExchange(T, obj, desired) == [ret |-> Decode(T, obj), obj |-> Encode(T, desired)]

\* SWIFTATOMIC_CMPXCHG_FN_SIMPLE: expected and desired are handed on as they are.
CmpxchgSimple(kind, obj, exp, des, spurious) ==
  AtomicCompareExchange(kind, obj, exp, des, spurious)

\* SWIFTATOMIC_CMPXCHG_FN_COMPLEX: *expected is encoded into the temporary
\* _expected, compared and exchanged there, and decoded back into *expected.
\* (Faulty variant: NoWriteBack leaves out the last assignment to *expected.)
CmpxchgComplexNoWriteBack(T, kind, obj, exp, des, spurious) ==
  LET r == AtomicCompareExchange(kind, obj, Encode(T, exp), Encode(T, des), spurious)
  IN  [result |-> r.result, obj |-> r.obj, expected |-> exp]
CmpxchgComplex(T, kind, obj, exp, des, spurious) ==
  LET r == AtomicCompareExchange(kind, obj, Encode(T, exp), Encode(T, des), spurious)
  IN  [result |-> r.result, obj |-> r.obj, expected |-> Decode(T, r.expected)]

\* _sa_cmpxchg_<kind>_<succ>_<fail>_<swiftType>(ptr, expected, desired)
SaCmpxchg(T, kind, obj, exp, des, spurious) ==
  IF Variant(T) = "SIMPLE"
    THEN CmpxchgSimple(kind, obj, exp, des, spurious)
    ELSE CmpxchgComplex(T, kind, obj, exp, des, spurious)

\* _sa_fetch_<op>_<order>_<swiftType>(ptr, operand)
SaFetch(T, op, obj, operand) ==
  [ret |-> Decode(T, obj), obj |-> AtomicFetchOp(T, op, obj, Encode(T, operand))]

\* ------------------------------------------- storage: threads operating
\* The resolver part of a state in which no entry point is called.
ResolverUntouched ==
  /\ init_token = "Uninitialized"
  /\ swift_retain_n = NULL
  /\ swift_release_n = NULL
  /\ handle = [t \in Threads |-> NULL]
  /\ resident = TRUE
  /\ proc = "running"
  /\ entry = [t \in Threads |-> "none"]
  /\ calls = [t \in Threads |-> 0]
  /\ retains = [t \in Threads |-> 0]
  /\ releases = [t \in Threads |-> 0]
  /\ initCount = 0
  /\ waited = {}
  /\ requested = [t \in Threads |-> <<>>]
  /\ invoked = [t \in Threads |-> <<>>]

\* What a caller may pass: the sample values and the value it could have loaded.
Inputs == Values(ty) \cup {Decode(ty, storage)}

LoadOp(t) ==
  /\ pc[t] = "ready"
  /\ \E order \in LoadOrderings :
       last' = [t |-> t, op |-> "load", order |-> order, prev |-> last.op,
                before |-> storage, ret |-> SaLoad(ty, storage)]
  /\ UNCHANGED <<resolverVars, callerVars, stampVars, ty, storage, expected, adds, loaded>>

StoreOp(t) ==
  /\ pc[t] = "ready"
  /\ \E v \in Values(ty) :
       /\ storage' = SaStore(ty, v)
       /\ \E order \in StoreOrderings :
            last' = [t |-> t, op |-> "store", order |-> order, before |-> storage,
                     arg |-> v]
  /\ UNCHANGED <<resolverVars, callerVars, stampVars, ty, expected, adds, loaded>>

ExchangeOp(t) ==
  /\ pc[t] = "ready"
  /\ \E v \in Values(ty) :
       LET r == SaExchange(ty, storage, v) IN
         /\ storage' = r.obj
         /\ last' = [t |-> t, op |-> "exchange", before |-> storage, arg |-> v,
                     ret |-> r.ret]
  /\ UNCHANGED <<resolverVars, callerVars, stampVars, ty, expected, adds, loaded>>

\* A compare-exchange on a caller's variable holding any input value `exp`;
\* what the call leaves in that variable is recorded as `wit`.
CmpxchgOp(t, kind) ==
  /\ pc[t] = "ready"
  /\ \E e \in Inputs, d \in Values(ty), spurious \in BOOLEAN :
       LET r == SaCmpxchg(ty, kind, storage, e, d, spurious) IN
         /\ storage' = r.obj
         /\ last' = [t |-> t, op |-> "cmpxchg", kind |-> kind, before |-> storage,
                     exp |-> e, arg |-> d, ret |-> r.result, wit |-> r.expected]
  /\ UNCHANGED <<resolverVars, callerVars, stampVars, ty, expected, adds, loaded>>

StorageStep(t) ==
  \/ LoadOp(t)
  \/ StoreOp(t)
  \/ ExchangeOp(t)
  \/ CmpxchgOp(t, "strong")
  \/ CmpxchgOp(t, "weak")

\* A storage of any type prepared with any value; every thread ready to operate.
StorageInit ==
  /\ ResolverUntouched
  /\ pc = [t \in Threads |-> "ready"]
  /\ ty \in StorageTypes
  /\ \E v \in Values(ty) :
       /\ storage = SaPrepare(ty, v)
       /\ expected = [t \in Threads |-> v]
  /\ adds = [t \in Threads |-> 0]
  /\ loaded = {}
  /\ last = NoOp
  /\ CallerUntouched
  /\ StampUntouched

StorageNext == \E t \in Threads : StorageStep(t)

StorageSpec == StorageInit /\ [][StorageNext]_vars

\* ------------------------------------- storage: the counter scenario
\* Every thread makes MaxAdds calls of _sa_fetch_add_<order>_<T>(ptr, 1) on one
\* integer storage prepared with 0; when all are done the storage is loaded.
\* (`last` is kept only by the single-operation scenario above.)
CounterAdd(t) ==
  /\ pc[t] = "adding" /\ adds[t] < MaxAdds
  /\ storage' = SaFetch(ty, "add", storage, 1).obj
  /\ adds' = [adds EXCEPT ![t] = @ + 1]
  /\ UNCHANGED <<resolverVars, callerVars, stampVars, ty, expected, loaded, last>>

CounterLoad ==
  /\ \A t \in Threads : pc[t] = "adding" /\ adds[t] = MaxAdds
  /\ loaded = {}
  /\ loaded' = {SaLoad(ty, storage)}
  /\ UNCHANGED <<resolverVars, callerVars, stampVars, ty, storage, expected, adds, last>>

CounterInit ==
  /\ ResolverUntouched
  /\ pc = [t \in Threads |-> "adding"]
  /\ ty \in IntegerTypes
  /\ storage = SaPrepare(ty, 0)
  /\ expected = [t \in Threads |-> 0]
  /\ adds = [t \in Threads |-> 0]
  /\ loaded = {}
  /\ last = NoOp
  /\ CallerUntouched
  /\ StampUntouched

CounterNext == (\E t \in Threads : CounterAdd(t)) \/ CounterLoad

CounterSpec == CounterInit /\ [][CounterNext]_vars

\* ------------------------------------ storage: the retry-loop scenario
\* Every thread runs the caller-side loop the weak compare-exchange is made for:
\*   expected = _sa_load(ptr);
\*   do { desired = Successor(expected); }
\*   while (!_sa_cmpxchg_weak(ptr, &expected, desired));
Successor(T, v) ==
  CASE T \in IntegerTypes -> Wrap(T, v + 1)
    [] T = "Bool"         -> 1 - v
    [] T = "DoubleWord"   -> [value |-> v.value + 1]

RetryLoad(t) ==
  /\ pc[t] = "r_load"
  /\ expected' = [expected EXCEPT ![t] = SaLoad(ty, storage)]
  /\ pc' = [pc EXCEPT ![t] = "r_cas"]
  /\ last' = [t |-> t, op |-> "load", before |-> storage, ret |-> SaLoad(ty, storage)]
  /\ UNCHANGED <<init_token, swift_retain_n, swift_release_n, handle, resident,
                 proc, entry, calls, retains, releases, initCount, waited,
                 requested, invoked, callerVars, stampVars, ty, storage, adds, loaded>>

RetryCas(t, spurious) ==
  /\ pc[t] = "r_cas"
  /\ LET d == Successor(ty, expected[t])
         r == SaCmpxchg(ty, "weak", storage, expected[t], d, spurious)
     IN  /\ storage' = r.obj
         /\ expected' = [expected EXCEPT ![t] = r.expected]
         /\ pc' = [pc EXCEPT ![t] = IF r.result THEN "r_done" ELSE "r_cas"]
         /\ last' = [t |-> t, op |-> "cmpxchg", kind |-> "weak", before |-> storage,
                     exp |-> expected[t], arg |-> d, ret |-> r.result,
                     wit |-> r.expected]
  /\ UNCHANGED <<init_token, swift_retain_n, swift_release_n, handle, resident,
                 proc, entry, calls, retains, releases, initCount, waited,
                 requested, invoked, callerVars, stampVars, ty, adds, loaded>>

RetryInit ==
  /\ ResolverUntouched
  /\ pc = [t \in Threads |-> "r_load"]
  /\ ty \in StorageTypes
  /\ \E v \in Values(ty) :
       /\ storage = SaPrepare(ty, v)
       /\ expected = [t \in Threads |-> v]
  /\ adds = [t \in Threads |-> 0]
  /\ loaded = {}
  /\ last = NoOp
  /\ CallerUntouched
  /\ StampUntouched

RetryNext ==
  \E t \in Threads :
    \/ RetryLoad(t)
    \/ \E spurious \in BOOLEAN : RetryCas(t, spurious)

RetrySpec == RetryInit /\ [][RetryNext]_vars

\* Every thread keeps running, and a weak compare-exchange does not fail
\* spuriously for ever: the attempt that does not fail spuriously is made.
RetryFairSpec ==
  RetrySpec /\ \A t \in Threads : WF_vars(RetryLoad(t)) /\ WF_vars(RetryCas(t, FALSE))

\* ------------------------------------------- the header, stamped out
\* What the preprocessor makes of _AtomicsShims.h when Swift's Clang importer
\* reads it (__swift__ defined) for a target configuration.  A target is the
\* predefined macros the header tests: os is "apple" (__APPLE__), "win32"
\* (_WIN32), "linux" (__linux__) or "other" (none of them); x86_64 is
\* __x86_64__; cx16 is __GCC_HAVE_SYNC_COMPARE_AND_SWAP_16.
Targets ==
  [os : {"apple", "win32", "linux", "other"}, x86_64 : BOOLEAN, cx16 : BOOLEAN]

\* ENABLE_DOUBLEWIDE_ATOMICS as #if reads it: 1 where a branch defines it,
\* 0 where none does (an undefined macro).
\* (Faulty variant: NoCx16Test enables it on Linux whatever the architecture.)
EnableDoublewideAtomicsNoCx16Test(tg) ==
  CASE tg.os = "apple" -> TRUE
    [] tg.os = "win32" -> TRUE
    [] tg.os = "linux" -> TRUE
    [] OTHER           -> FALSE
EnableDoublewideAtomics(tg) ==
  CASE tg.os = "apple" -> TRUE
    [] tg.os = "win32" -> TRUE
    [] tg.os = "linux" -> (~tg.x86_64 \/ tg.cx16)
    [] OTHER           -> FALSE

\* The orderings SWIFTATOMIC_EXCHANGE_FNS and SWIFTATOMIC_INTEGER_FNS stamp.
ExchangeOrderings == {"relaxed", "acquire", "release", "acq_rel", "seq_cst"}
FetchOrderings == {"relaxed", "acquire", "release", "acq_rel", "seq_cst"}

\* The (succ, fail) pairs SWIFTATOMIC_CMPXCHG_FNS stamps.
\* (Faulty variant: WithReleaseAcquire has a tenth line, release/acquire.)
CmpxchgOrderingsWithReleaseAcquire ==
  { <<"relaxed", "relaxed">>, <<"acquire", "relaxed">>, <<"release", "relaxed">>,
    <<"acq_rel", "relaxed">>, <<"seq_cst", "relaxed">>, <<"acquire", "acquire">>,
    <<"release", "acquire">>,
    <<"acq_rel", "acquire">>, <<"seq_cst", "acquire">>, <<"seq_cst", "seq_cst">> }
CmpxchgOrderings ==
  { <<"relaxed", "relaxed">>, <<"acquire", "relaxed">>, <<"release", "relaxed">>,
    <<"acq_rel", "relaxed">>, <<"seq_cst", "relaxed">>, <<"acquire", "acquire">>,
    <<"acq_rel", "acquire">>, <<"seq_cst", "acquire">>, <<"seq_cst", "seq_cst">> }

\* A function _sa_<op>[_<kind>]_<order>[_<fail>]_<swiftType>, by the parts of
\* its name ("-" for a part the name does not have).
Fn(op, kind, order, fail, T) ==
  [op |-> op, kind |-> kind, order |-> order, fail |-> fail, type |-> T]

\* SWIFTATOMIC_DEFINE_TYPE(variant, swiftType, ...): the functions.
DefineTypeFns(variant, T) ==
  {Fn("prepare", "-", "-", "-", T), Fn("dispose", "-", "-", "-", T)}
  \cup {Fn("load", "-", o, "-", T) : o \in LoadOrderings}
  \cup {Fn("store", "-", o, "-", T) : o \in StoreOrderings}
  \cup {Fn("exchange", "-", o, "-", T) : o \in ExchangeOrderings}
  \cup {Fn("cmpxchg", k, p[1], p[2], T) : k \in {"strong", "weak"}, p \in CmpxchgOrderings}

\* SWIFTATOMIC_INTEGER_FNS(op, swiftType, ...)
IntegerFns(op, T) == {Fn("fetch_" \o op, "-", o, "-", T) : o \in FetchOrderings}

\* SWIFTATOMIC_DEFINE_INTEGER_TYPE(variant, swiftType, ...): the functions.
DefineIntegerTypeFns(variant, T) ==
  DefineTypeFns(variant, T)
  \cup UNION {IntegerFns(op, T) : op \in {"add", "sub", "or", "xor", "and"}}

\* The type definitions of the header, in its order.
StampedIntegerTypes ==
  {"Int", "Int8", "Int16", "Int32", "Int64", "UInt", "UInt8", "UInt16", "UInt32", "UInt64"}
HeaderTypes ==
  <<"Int", "Int8", "Int16", "Int32", "Int64",
    "UInt", "UInt8", "UInt16", "UInt32", "UInt64", "Bool", "DoubleWord">>

\* SWIFTATOMIC_DEFINE_INTEGER_TYPE(SIMPLE, <integer type>, ...)
DefineIntegerType ==
  /\ cursor \in 1..Len(HeaderTypes)
  /\ HeaderTypes[cursor] \in StampedIntegerTypes
  /\ types' = types \cup {HeaderTypes[cursor]}
  /\ functions' = functions \cup DefineIntegerTypeFns("SIMPLE", HeaderTypes[cursor])
  /\ cursor' = cursor + 1
  /\ UNCHANGED <<resolverVars, ty, storage, expected, adds, loaded, last,
                 callerVars, target>>

\* SWIFTATOMIC_DEFINE_TYPE(SIMPLE, Bool, bool, bool) and the three
\* SWIFTATOMIC_INTEGER_FNS lines that follow it.
DefineBool ==
  /\ cursor \in 1..Len(HeaderTypes)
  /\ HeaderTypes[cursor] = "Bool"
  /\ types' = types \cup {"Bool"}
  /\ functions' = functions \cup DefineTypeFns("SIMPLE", "Bool")
                     \cup IntegerFns("or", "Bool") \cup IntegerFns("xor", "Bool")
                     \cup IntegerFns("and", "Bool")
  /\ cursor' = cursor + 1
  /\ UNCHANGED <<resolverVars, ty, storage, expected, adds, loaded, last,
                 callerVars, target>>

\* #if ENABLE_DOUBLEWIDE_ATOMICS: SWIFTATOMIC_DEFINE_TYPE(COMPLEX, DoubleWord, ...)
\* #else: SWIFTATOMIC_STORAGE_TYPE(DoubleWord, ...)
DefineDoubleWord ==
  /\ cursor \in 1..Len(HeaderTypes)
  /\ HeaderTypes[cursor] = "DoubleWord"
  /\ types' = types \cup {"DoubleWord"}
  /\ functions' = IF EnableDoublewideAtomics(target)
                    THEN functions \cup DefineTypeFns("COMPLEX", "DoubleWord")
                    ELSE functions
  /\ cursor' = cursor + 1
  /\ UNCHANGED <<resolverVars, ty, storage, expected, adds, loaded, last,
                 callerVars, target>>

StampInit ==
  /\ ResolverUntouched
  /\ pc = [t \in Threads |-> "none"]
  /\ target \in Targets
  /\ cursor = 1
  /\ types = {}
  /\ functions = {}
  /\ ty = "none"
  /\ storage = 0
  /\ expected = [t \in Threads |-> 0]
  /\ adds = [t \in Threads |-> 0]
  /\ loaded = {}
  /\ last = NoOp
  /\ CallerUntouched

StampNext == DefineIntegerType \/ DefineBool \/ DefineDoubleWord

StampSpec == StampInit /\ [][StampNext]_vars

\* ------------------------------------- storage: the exchange scenario
\* Every thread makes one call _sa_exchange_<order>_<T>(ptr, given[t]) on one
\* shared storage; the value prepared and the values given are all different.
ExchangeValues(T) == Values(T) \cup {Decode(T, n) : n \in 0..NumThreads}

ExchangeOnce(t) ==
  /\ pc[t] = "x_todo"
  /\ LET r == SaExchange(ty, storage, given[t]) IN
       /\ storage' = r.obj
       /\ returned' = [returned EXCEPT ![t] = {r.ret}]
  /\ pc' = [pc EXCEPT ![t] = "x_done"]
  /\ UNCHANGED <<init_token, swift_retain_n, swift_release_n, handle, resident,
                 proc, entry, calls, retains, releases, initCount, waited,
                 requested, invoked, ty, expected, adds, loaded, last,
                 given, prepared, lock_free, ndebug, stampVars>>

ExchangeInit ==
  /\ ResolverUntouched
  /\ pc = [t \in Threads |-> "x_todo"]
  /\ ty \in StorageTypes \ {"Bool"}
  /\ \E v \in ExchangeValues(ty) :
       /\ prepared = {v}
       /\ storage = SaPrepare(ty, v)
       /\ given \in [Threads -> ExchangeValues(ty) \ {v}]
  /\ \A t, u \in Threads : t # u => given[t] # given[u]
  /\ returned = [t \in Threads |-> {}]
  /\ expected = [t \in Threads |-> 0]
  /\ adds = [t \in Threads |-> 0]
  /\ loaded = {}
  /\ last = NoOp
  /\ lock_free = TRUE
  /\ ndebug = FALSE
  /\ StampUntouched

ExchangeNext == \E t \in Threads : ExchangeOnce(t)

ExchangeSpec == ExchangeInit /\ [][ExchangeNext]_vars

\* ------------------------------------ storage: the fetch-modify scenario
\* Threads call _sa_fetch_<op>_<order>_<T>(ptr, operand), any operation stamped
\* for the type, on one storage prepared with any value of the type.
FetchOperands(T) == IF T = "Bool" THEN Values(T) ELSE (Values(T) \ {0, 127}) \cup {85}

FetchOp(t) ==
  /\ pc[t] = "f_ready"
  /\ \E op \in FetchOps(ty), v \in FetchOperands(ty) :
       LET r == SaFetch(ty, op, storage, v) IN
         /\ storage' = r.obj
         /\ last' = [t |-> t, op |-> "fetch", fn |-> op, before |-> storage,
                     arg |-> v, ret |-> r.ret]
  /\ UNCHANGED <<resolverVars, callerVars, stampVars, ty, expected, adds, loaded>>

FetchInit ==
  /\ ResolverUntouched
  /\ pc = [t \in Threads |-> "f_ready"]
  /\ ty \in IntegerTypes \cup {"Bool"}
  /\ \E v \in Range(ty) : storage = SaPrepare(ty, v)
  /\ expected = [t \in Threads |-> 0]
  /\ adds = [t \in Threads |-> 0]
  /\ loaded = {}
  /\ last = NoOp
  /\ CallerUntouched
  /\ StampUntouched

FetchNext == \E t \in Threads : FetchOp(t)

FetchSpec == FetchInit /\ [][FetchNext]_vars

\* --------------------------------------- storage: from prepare to dispose
\* A thread prepares a storage of some type on some target, operates on it and
\* disposes of it: _sa_prepare hands the storage to its caller by value and
\* _sa_dispose takes it by value (threads sharing a storage are followed in
\* the other scenarios).  The 8-bit types and bool are lock-free on every
\* target; a double word is not where the target has no instruction of that
\* width.
Prepare(t) ==
  /\ proc = "running" /\ pc[t] = "unprepared"
  /\ \E v \in Values(ty) :
       /\ storage' = SaPrepare(ty, v)
       /\ prepared' = {v}
       /\ last' = [t |-> t, op |-> "prepare", arg |-> v]
  /\ IF AssertPasses(ndebug, lock_free)
       THEN /\ pc' = [pc EXCEPT ![t] = "ready"]
            /\ UNCHANGED proc
       ELSE /\ proc' = "aborted"
            /\ UNCHANGED pc
  /\ UNCHANGED <<init_token, swift_retain_n, swift_release_n, handle, resident,
                 entry, calls, retains, releases, initCount, waited,
                 requested, invoked, ty, expected, adds, loaded,
                 given, returned, lock_free, ndebug, stampVars>>

\* _sa_fetch_<op>_<order>_<T>(ptr, operand) with one of the bitwise operations
\* (add and sub, which run through the whole range of the type, are followed
\* in the fetch-modify scenario).
BitwiseFetchOp(t) ==
  /\ pc[t] = "ready"
  /\ \E op \in FetchOps(ty) \ {"add", "sub"}, v \in Values(ty) :
       LET r == SaFetch(ty, op, storage, v) IN
         /\ storage' = r.obj
         /\ last' = [t |-> t, op |-> "fetch", fn |-> op, before |-> storage,
                     arg |-> v, ret |-> r.ret]
  /\ UNCHANGED <<resolverVars, callerVars, stampVars, ty, expected, adds, loaded>>

Dispose(t) ==
  /\ pc[t] = "ready" /\ prepared # {}
  /\ last' = [t |-> t, op |-> "dispose", prev |-> last.op, before |-> storage,
              ret |-> SaDispose(ty, storage)]
  /\ pc' = [pc EXCEPT ![t] = "disposed"]
  /\ UNCHANGED <<init_token, swift_retain_n, swift_release_n, handle, resident,
                 proc, entry, calls, retains, releases, initCount, waited,
                 requested, invoked, ty, storage, expected, adds, loaded,
                 callerVars, stampVars>>

LifeInit ==
  /\ ResolverUntouched
  /\ pc = [t \in Threads |-> IF t = 1 THEN "unprepared" ELSE "none"]
  /\ ty \in StorageTypes
  /\ lock_free \in (IF ty = "DoubleWord" THEN BOOLEAN ELSE {TRUE})
  /\ ndebug \in BOOLEAN
  /\ storage = 0
  /\ prepared = {}
  /\ given = [t \in Threads |-> 0]
  /\ returned = [t \in Threads |-> {}]
  /\ expected = [t \in Threads |-> 0]
  /\ adds = [t \in Threads |-> 0]
  /\ loaded = {}
  /\ last = NoOp
  /\ StampUntouched

LifeNext ==
  \E t \in Threads :
    \/ Prepare(t)
    \/ LoadOp(t) \/ StoreOp(t) \/ ExchangeOp(t) \/ CmpxchgOp(t, "strong")
    \/ BitwiseFetchOp(t)
    \/ Dispose(t)

LifeSpec == LifeInit /\ [][LifeNext]_vars

\* ---------------------------------------- double words: pack and unpack
\* One thread packs a pair of uintptr_t values and takes the double word
\* apart again, any number of times.
Words == 0..(Pow2(IntptrWidth) - 1)

DwordCreate(t) ==
  /\ pc[t] = "d_create"
  /\ LET high == given[t][1]
         low == given[t][2]
         dw == SaDwordCreate(high, low)
     IN  /\ returned' = [returned EXCEPT ![t] = {dw}]
         /\ last' = [t |-> t, op |-> "dword_create", high |-> high, low |-> low,
                     ret |-> dw]
  /\ pc' = [pc EXCEPT ![t] = "d_extract"]
  /\ UNCHANGED <<init_token, swift_retain_n, swift_release_n, handle, resident,
                 proc, entry, calls, retains, releases, initCount, waited,
                 requested, invoked, ty, storage, expected, adds, loaded,
                 given, prepared, lock_free, ndebug, stampVars>>

DwordExtractHigh(t) ==
  /\ pc[t] = "d_extract"
  /\ \E dw \in returned[t] :
       last' = [t |-> t, op |-> "dword_extract_high", arg |-> dw,
                ret |-> SaDwordExtractHigh(dw)]
  /\ UNCHANGED <<resolverVars, callerVars, stampVars, ty, storage, expected, adds,
                 loaded>>

DwordExtractLow(t) ==
  /\ pc[t] = "d_extract"
  /\ \E dw \in returned[t] :
       last' = [t |-> t, op |-> "dword_extract_low", arg |-> dw,
                ret |-> SaDwordExtractLow(dw)]
  /\ UNCHANGED <<resolverVars, callerVars, stampVars, ty, storage, expected, adds,
                 loaded>>

DwordInit ==
  /\ ResolverUntouched
  /\ pc = [t \in Threads |-> IF t = 1 THEN "d_create" ELSE "d_none"]
  /\ \E high \in Words, low \in Words : given = [t \in Threads |-> <<high, low>>]
  /\ returned = [t \in Threads |-> {}]
  /\ prepared = {}
  /\ lock_free = TRUE
  /\ ndebug = FALSE
  /\ ty = "none"
  /\ storage = 0
  /\ expected = [t \in Threads |-> 0]
  /\ adds = [t \in Threads |-> 0]
  /\ loaded = {}
  /\ last = NoOp
  /\ StampUntouched

DwordNext ==
  \E t \in Threads : DwordCreate(t) \/ DwordExtractHigh(t) \/ DwordExtractLow(t)

DwordSpec == DwordInit /\ [][DwordNext]_vars

\* ------------------------------------------------------- the whole layer
\* Any of the scenarios: threads calling the resolver's entry points, or
\* threads operating on a prepared storage.  The two parts share no state.
SystemInit == Init \/ StorageInit \/ CounterInit \/ RetryInit

SystemNext == Next \/ StorageNext \/ CounterNext \/ RetryNext

SystemSpec == SystemInit /\ [][SystemNext]_vars

\* -------------------------------------------------------- storage: claims
RECURSIVE SumUpTo(_, _)
SumUpTo(f, n) == IF n = 0 THEN 0 ELSE f[n] + SumUpTo(f, n - 1)

\* The largest value an integer type represents.
MaxValue(T) == IF IsSigned(T) THEN Pow2(Width(T) - 1) - 1 ELSE Pow2(Width(T)) - 1

\* C8 as stated: the value loaded after all K threads made their M fetch-adds
\* of 1 equals K*M.
C8_FinalLoadIsProduct == loaded # {} => loaded = {NumThreads * MaxAdds}

\* C8 as amended: the value loaded equals K*M reduced modulo 2^w into the
\* range of the storage's w-bit type (so K*M itself whenever the type
\* represents K*M), and at every moment the storage holds the number of
\* fetch-adds made so far, reduced the same way: none is lost or applied twice.
C8_FinalLoadIsWrappedProduct ==
  /\ storage = Wrap(ty, SumUpTo(adds, NumThreads))
  /\ loaded # {} =>
       /\ loaded = {Wrap(ty, NumThreads * MaxAdds)}
       /\ NumThreads * MaxAdds <= MaxValue(ty) => loaded = {NumThreads * MaxAdds}
\* (all threads done, the product does not fit the type, and the load shows the wrapped value)
C8_Witness ==
  /\ loaded # {} /\ ty = "Int8"
  /\ NumThreads * MaxAdds > MaxValue(ty)
  /\ \A t \in Threads : adds[t] = MaxAdds
  /\ \A v \in loaded : v < 0

\* C12: a load leaves the stored value as it is, and a load that is the next
\* operation on the storage after a store of v (by any thread, for any type,
\* any store ordering and any load ordering) returns v.
C12_StoreLoadRoundTrip ==
  [][last'.op = "load" =>
       /\ storage' = storage
       /\ last'.order \in LoadOrderings
       /\ last.op = "store" =>
            (last.order \in StoreOrderings /\ last'.ret = last.arg)]_vars
\* (a thread has just loaded, right after another thread's store: a negative
\* Int8 with an acquire load, or a DoubleWord that differs from zero)
C12_Witness ==
  /\ last.op = "load" /\ last.prev = "store" /\ last.t = 2
  /\ \/ ty = "Int8" /\ last.ret = -1 /\ last.order = "acquire"
     \/ ty = "DoubleWord" /\ last.ret = [value |-> 2]

\* C14: a fetch-modify step returns the value stored right before it and
\* leaves a value of the type that is: for add and sub, congruent modulo 2^w
\* to previous + operand and previous - operand; for or, xor and and, bit by
\* bit the or, xor and and of previous and operand.  On Bool only or, xor and
\* and are made, and they leave the logical or, xor and and.
BitAt(x, i, w) == ((x % (2^w)) \div (2^i)) % 2

C14_FetchModify ==
  [][last'.op = "fetch" =>
       LET a == storage
           b == last'.arg
           r == storage'
           w == Width(ty)
           fn == last'.fn
       IN  /\ last'.ret = a /\ last'.before = a
           /\ r \in Range(ty)
           /\ fn = "add" => (r - (a + b)) % Pow2(w) = 0
           /\ fn = "sub" => (r - (a - b)) % Pow2(w) = 0
           /\ fn = "or" => \A i \in 0..(w - 1) :
                (BitAt(r, i, w) = 1) = (BitAt(a, i, w) = 1 \/ BitAt(b, i, w) = 1)
           /\ fn = "xor" => \A i \in 0..(w - 1) :
                (BitAt(r, i, w) = 1) = (BitAt(a, i, w) # BitAt(b, i, w))
           /\ fn = "and" => \A i \in 0..(w - 1) :
                (BitAt(r, i, w) = 1) = (BitAt(a, i, w) = 1 /\ BitAt(b, i, w) = 1)
           /\ ty = "Bool" =>
                /\ fn \in {"or", "xor", "and"}
                /\ fn = "or" => (r = 1) = (a = 1 \/ b = 1)
                /\ fn = "xor" => (r = 1) = ((a = 1) # (b = 1))
                /\ fn = "and" => (r = 1) = (a = 1 /\ b = 1)]_vars
\* (an add on Int8 storage holding 127 has wrapped to -128 and returned 127)
C14_Witness ==
  /\ last.op = "fetch" /\ last.fn = "add" /\ ty = "Int8"
  /\ last.before = 127 /\ last.arg = 1 /\ last.ret = 127 /\ storage = -128

\* C15: for every type that has functions and for the strong and the weak
\* variant alike, the (success, failure) pairs of the compare-exchange
\* functions are exactly the pairs in which failure guarantees nothing that
\* success does not guarantee and failure is neither release nor acq_rel; these
\* are the nine pairs listed.
Orderings == {"relaxed", "acquire", "release", "acq_rel", "seq_cst"}
Guarantees(o) ==
  CASE o = "relaxed" -> {}
    [] o = "acquire" -> {"acquire"}
    [] o = "release" -> {"release"}
    [] o = "acq_rel" -> {"acquire", "release"}
    [] o = "seq_cst" -> {"acquire", "release", "single total order"}
NoStronger(f, s) == Guarantees(f) \subseteq Guarantees(s)
LegalPairs ==
  {p \in Orderings \X Orderings :
     NoStronger(p[2], p[1]) /\ p[2] \notin {"release", "acq_rel"}}
StampedPairs(T, k) ==
  {<<f.order, f.fail>> :
     f \in {g \in functions : g.op = "cmpxchg" /\ g.type = T /\ g.kind = k}}

C15_CmpxchgPairs ==
  /\ \A T \in {f.type : f \in functions}, k \in {"strong", "weak"} :
       StampedPairs(T, k) = LegalPairs
  /\ \A f \in functions : f.op = "cmpxchg" => f.kind \in {"strong", "weak"}
  /\ Cardinality(LegalPairs) = 9
  /\ LegalPairs =
       { <<"relaxed", "relaxed">>, <<"acquire", "relaxed">>, <<"release", "relaxed">>,
         <<"acq_rel", "relaxed">>, <<"seq_cst", "relaxed">>, <<"acquire", "acquire">>,
         <<"acq_rel", "acquire">>, <<"seq_cst", "acquire">>, <<"seq_cst", "seq_cst">> }
\* (the whole header is expanded on a target with double-wide atomics: the
\* integer types, Bool and DoubleWord all have their compare-exchange functions)
C15_Witness ==
  /\ cursor = Len(HeaderTypes) + 1
  /\ {"Int8", "Bool", "DoubleWord"} \subseteq {f.type : f \in functions}
  /\ Cardinality({f \in functions : f.op = "cmpxchg" /\ f.type = "DoubleWord"}) = 18

\* C16 as stated: after the header is expanded the DoubleWord storage type
\* exists on every target, and DoubleWord functions exist on every target but
\* Linux on x86_64 without the 16-byte compare-and-swap, where there is none.
HasDoubleWordFns == \E f \in functions : f.type = "DoubleWord"
LacksInstruction(tg) == tg.os = "linux" /\ tg.x86_64 /\ ~tg.cx16

C16_DoubleWideEverywhereButOne ==
  cursor = Len(HeaderTypes) + 1 =>
    /\ "DoubleWord" \in types
    /\ HasDoubleWordFns = ~LacksInstruction(target)
    /\ HasDoubleWordFns =>
         DefineTypeFns("COMPLEX", "DoubleWord") \subseteq functions

\* C17 as stated: a storage is handed back by prepare, and operated on or
\* disposed of, only if atomic_is_lock_free answered true for it; where it
\* answers false, prepare ends the process.
C17_PrepareChecksLockFree ==
  /\ (\E t \in Threads : pc[t] \in {"ready", "disposed"}) => lock_free
  /\ last.op \notin {"none", "prepare"} => lock_free
  /\ (last.op = "prepare" /\ ~lock_free) => proc = "aborted"

\* C18: the value a storage holds after an operation, as the operation's own
\* arguments and results tell it: prepare(v), store(v) and exchange(v) leave
\* v, a successful compare-exchange leaves desired, a failed one and a load
\* leave what they observed, a bitwise fetch leaves the bitwise result.  A
\* load and a dispose return the value left by the operation before them (so
\* the first load after prepare(v) returns v, and dispose returns the value
\* left by the last write, or v), and dispose changes nothing of the storage.
LeftBy(rec) ==
  CASE rec.op \in {"prepare", "store", "exchange"} -> rec.arg
    [] rec.op = "cmpxchg" -> IF rec.ret THEN rec.arg ELSE rec.wit
    [] rec.op = "load" -> rec.ret
    [] rec.op = "fetch" ->
         CHOOSE r \in Range(ty) : \A i \in 0..(Width(ty) - 1) :
           (BitAt(r, i, Width(ty)) = 1) =
             (CASE rec.fn = "or" -> BitAt(rec.before, i, Width(ty)) = 1
                                      \/ BitAt(rec.arg, i, Width(ty)) = 1
                [] rec.fn = "xor" -> BitAt(rec.before, i, Width(ty))
                                      # BitAt(rec.arg, i, Width(ty))
                [] rec.fn = "and" -> BitAt(rec.before, i, Width(ty)) = 1
                                      /\ BitAt(rec.arg, i, Width(ty)) = 1)

C18_PrepareDispose ==
  [][/\ (last'.op = "prepare" /\ proc' = "running") =>
          (prepared' = {last'.arg} /\ pc'[last'.t] = "ready")
     /\ last'.op \in {"load", "dispose"} =>
          /\ last'.ret = LeftBy(last)
          /\ last.op = "prepare" => {last'.ret} = prepared
          /\ storage' = storage /\ ty' = ty /\ prepared' = prepared
          /\ proc' = proc]_vars
\* (a DoubleWord storage was disposed of right after a compare-exchange, and
\* the value returned is not the value it was prepared with)
C18_Witness ==
  /\ last.op = "dispose" /\ last.prev = "cmpxchg" /\ ty = "DoubleWord"
  /\ {last.ret} # prepared /\ pc[last.t] = "disposed"

\* C19: on a storage of the COMPLEX variant (DoubleWord), for every stored
\* value, every expected and desired value, both kinds and either outcome of a
\* weak attempt, the COMPLEX compare-exchange gives the boolean and the stored
\* value that the SIMPLE one gives on the encoded values, and leaves in
\* *expected the decoding of what the SIMPLE one leaves there; and every
\* compare-exchange step taken on such a storage is such an outcome, with the
\* expected value unchanged on success and the observed value on failure.
C19_ComplexLikeSimple ==
  /\ [](Variant(ty) = "COMPLEX" =>
          \A kind \in {"strong", "weak"}, e \in Inputs, d \in Values(ty),
             spurious \in BOOLEAN :
            LET c == CmpxchgComplex(ty, kind, storage, e, d, spurious)
                s == CmpxchgSimple(kind, storage, Encode(ty, e), Encode(ty, d),
                                   spurious)
            IN  /\ c.result = s.result
                /\ c.obj = s.obj
                /\ c.expected = Decode(ty, s.expected))
  /\ [][(last'.op = "cmpxchg" /\ Variant(ty) = "COMPLEX") =>
          \E spurious \in BOOLEAN :
            LET s == CmpxchgSimple(last'.kind, storage, Encode(ty, last'.exp),
                                   Encode(ty, last'.arg), spurious)
            IN  /\ last'.ret = s.result
                /\ storage' = s.obj
                /\ last'.wit = Decode(ty, s.expected)
                /\ s.result => last'.wit = last'.exp
                /\ ~s.result => last'.wit = Decode(ty, storage)]_vars
\* (a weak compare-exchange on a DoubleWord storage has succeeded and changed
\* the stored value; the caller's expected value is as it was)
C19_Witness ==
  /\ last.op = "cmpxchg" /\ last.kind = "weak" /\ ty = "DoubleWord"
  /\ last.ret /\ last.wit = last.exp
  /\ storage = Encode(ty, last.arg) /\ storage # last.before

\* C9: a step that is a strong compare-exchange, whatever the other threads did
\* before it, returns true exactly when the stored value equals the (encoded)
\* expected value at that step; on success the storage holds desired and the
\* caller's variable still holds expected; on failure the storage is unchanged
\* and the caller's variable holds the value that was stored.
C9_StrongCas ==
  [][(last'.op = "cmpxchg" /\ last'.kind = "strong") =>
       LET e == Encode(ty, last'.exp)
           d == Encode(ty, last'.arg)
       IN  /\ last'.ret = (storage = e)
           /\ last'.ret => (storage' = d /\ last'.wit = last'.exp)
           /\ ~last'.ret => (storage' = storage /\ last'.wit = Decode(ty, storage))]_vars
\* (a strong compare-exchange of the COMPLEX variant failed against a value
\* another thread had put there, and reported that value)
C9_Witness ==
  /\ last.op = "cmpxchg" /\ last.kind = "strong" /\ ty = "DoubleWord"
  /\ ~last.ret /\ last.wit # last.exp /\ last.wit = Decode(ty, storage)
  /\ last.t = 2

\* C10: a weak compare-exchange returns true only when the stored value equals
\* the expected value (and then stores desired); whenever it returns false,
\* for a real or a spurious failure, the storage is unchanged; and a thread
\* retrying it in a loop gets through once the others have stopped modifying
\* the storage.  (That it may fail although the values are equal is C10_Witness.)
C10_WeakCas ==
  /\ [][(last'.op = "cmpxchg" /\ last'.kind = "weak") =>
          LET e == Encode(ty, expected[last'.t])
          IN  /\ last'.ret => (storage = e /\ storage' = Encode(ty, last'.arg))
              /\ ~last'.ret => storage' = storage
              /\ storage # e => (~last'.ret /\ expected'[last'.t] = Decode(ty, storage))]_vars
  /\ \A t \in Threads : (pc[t] = "r_cas") ~> (pc[t] = "r_done")
\* (a weak compare-exchange has just returned false although the stored value
\* equalled expected, after another thread's loop had already succeeded)
C10_Witness ==
  /\ last.op = "cmpxchg" /\ last.kind = "weak" /\ ~last.ret
  /\ last.before = Encode(ty, last.exp) /\ storage = last.before
  /\ pc[last.t] = "r_cas"
  /\ \E u \in Threads : pc[u] = "r_done"

\* C11: N threads each exchange one value, all different and different from
\* the value prepared.  At every moment the threads that have exchanged can be
\* put in one order in which the first got the prepared value back, each later
\* one got back what the one before it gave, and the storage holds what the
\* last one gave: the values returned together with the stored value are the
\* prepared value plus the values given, each once.
Exchanged == {t \in Threads : pc[t] = "x_done"}

C11_ExchangeChain ==
  LET done == Exchanged
      n == Cardinality(done)
      final == SaLoad(ty, storage)
      got == UNION {returned[t] : t \in done}
  IN  /\ \A t \in Threads : Cardinality(returned[t]) = (IF t \in done THEN 1 ELSE 0)
      /\ n = 0 => {final} = prepared
      /\ n > 0 => final \in {given[t] : t \in done}
      /\ got \cup {final} = prepared \cup {given[t] : t \in done}
      /\ Cardinality(got) = n /\ final \notin got
      /\ \E order \in [1..n -> done] :
           /\ \A i, j \in 1..n : i # j => order[i] # order[j]
           /\ \A i \in 1..n :
                returned[order[i]] = (IF i = 1 THEN prepared ELSE {given[order[i - 1]]})
           /\ n > 0 => final = given[order[n]]
\* (every thread has exchanged on a DoubleWord storage, and the last thread
\* was not the last to exchange: it got the prepared value, the first thread
\* got what another thread gave)
C11_Witness ==
  /\ Exchanged = Threads /\ ty = "DoubleWord"
  /\ returned[NumThreads] = prepared
  /\ returned[1] \subseteq {given[t] : t \in Threads \ {1}} /\ returned[1] # {}
  /\ SaLoad(ty, storage) # given[NumThreads]

\* C13: the double word created from (high, low) has the value
\* high * 2^width + low and fits twice the width (no bit of high is shifted
\* out, no bit of low reaches the high half); extracting the high half gives
\* high again and extracting the low half gives low.
C13_DwordRoundTrip ==
  /\ last.op = "dword_create" =>
       /\ last.ret.value = last.high * Pow2(IntptrWidth) + last.low
       /\ last.ret.value < Pow2(2 * IntptrWidth)
       /\ last.high = given[last.t][1] /\ last.low = given[last.t][2]
  /\ last.op = "dword_extract_high" =>
       (returned[last.t] = {last.arg} /\ last.ret = given[last.t][1])
  /\ last.op = "dword_extract_low" =>
       (returned[last.t] = {last.arg} /\ last.ret = given[last.t][2])
\* (the high half was extracted from a double word whose two halves have
\* every bit set)
C13_Witness ==
  /\ last.op = "dword_extract_high"
  /\ last.ret = Pow2(IntptrWidth) - 1
  /\ given[last.t] = <<Pow2(IntptrWidth) - 1, Pow2(IntptrWidth) - 1>>

\* ------------------------------------------------------- resolver: claims
Resolved ==
  /\ swift_retain_n = "swift_retain_n"
  /\ swift_release_n = "swift_release_n"

AllDone == proc = "running" /\ \A t \in Threads : pc[t] = "idle" /\ calls[t] = MaxCalls

\* C20: in either build, for every thread, the backing calls made so far are,
\* in order, one for each of its calls that have returned: for _sa_retain_n
\* (object, n) the increment function swift_retain_n with the same (object, n),
\* for _sa_release_n(object, n) the decrement function swift_release_n with the
\* same (object, n).  A call still in progress has made no backing call.  The
\* backing calls of a thread are the same function of its calls in both builds.
BackingFor(req) ==
  [fn |-> IF req.entry = "retain" THEN "swift_retain_n" ELSE "swift_release_n",
   object |-> req.object, n |-> req.n]

C20_SameBackingCalls ==
  \A t \in Threads :
    /\ Len(invoked[t]) = calls[t]
    /\ Len(requested[t]) \in {calls[t], calls[t] + 1}
    /\ pc[t] \in {"idle", "s_idle"} => Len(requested[t]) = calls[t]
    /\ \A k \in 1..calls[t] : invoked[t][k] = BackingFor(requested[t][k])
    /\ retains[t] = Cardinality({k \in 1..calls[t] : requested[t][k].entry = "retain"})
    /\ releases[t] = Cardinality({k \in 1..calls[t] : requested[t][k].entry = "release"})
\* (lazy binding: a thread that was blocked at the gate has returned from
\* _sa_release_n and another thread from _sa_retain_n, each after one backing call)
C20_Witness ==
  \E t \in waited, u \in Threads \ waited :
    /\ calls[t] = 1 /\ requested[t][1].entry = "release"
    /\ invoked[t] = <<[fn |-> "swift_release_n", object |-> ObjectOf(t), n |-> 1]>>
    /\ calls[u] = 1 /\ requested[u][1].entry = "retain"
    /\ invoked[u] = <<[fn |-> "swift_retain_n", object |-> ObjectOf(u), n |-> 1]>>

\* C21: _sa_retain_n and _sa_release_n go through the one gate init_token.
\* A caller leaving dispatch_once_f, through whichever entry point, enters
\* _sa_initialize exactly when no caller of either entry point has entered it
\* before; otherwise it waits or passes, the initializer is not run again, and
\* a caller that passes finds both pointers resolved.  The two pointers are
\* resolved by the same run: one is resolved without the other only while the
\* thread running _sa_initialize is between its two assignments, when the
\* token is Initializing and no thread is past the gate.
HalfResolved == (swift_retain_n = NULL) # (swift_release_n = NULL)

C21_SharedGate ==
  /\ [](HalfResolved =>
          /\ init_token = "Initializing"
          /\ \E t \in Threads : pc[t] = "dlsym_release"
          /\ \A u \in Threads : pc[u] # "call")
  /\ [][\A t \in Threads :
         (pc[t] = "once" /\ pc'[t] # "once") =>
           IF initCount = 0
             THEN pc'[t] = "dlopen" /\ initCount' = 1
             ELSE /\ initCount' = initCount
                  /\ pc'[t] \in {"wait", "call"}
                  /\ pc'[t] = "call" => Resolved']_vars
\* (a thread ran the initializer on its call to _sa_retain_n and has returned;
\* another thread, on the first call to _sa_release_n, came to the gate when it
\* was open, did not run the initializer, and is about to call through the pointer)
C21_Witness ==
  \E t, u \in Threads :
    /\ t # u /\ initCount = 1 /\ Resolved
    /\ calls[t] = 1 /\ requested[t][1].entry = "retain" /\ handle[t] # NULL
    /\ \A v \in Threads : \A k \in 1..calls[v] : requested[v][k].entry = "retain"
    /\ entry[u] = "release" /\ pc[u] = "call"
    /\ u \notin waited /\ handle[u] = NULL

\* C1: however many threads race to make the first call, the body of
\* _sa_initialize is entered at most once, and exactly once by the time any
\* call has returned (so exactly once after all threads have completed).
C1_InitializerRunsOnce ==
  /\ initCount <= 1
  /\ (\E t \in Threads : calls[t] >= 1) => initCount = 1
  /\ AllDone => initCount = 1
C1_Witness == AllDone /\ initCount = 1 /\ Cardinality(waited) = NumThreads - 1

\* C2: a backing function is invoked (or a call through the pointer is
\* attempted) only when the one-time initializer has run to completion; this
\* holds in particular for the threads that were blocked at the gate.
C2_NoCallBeforeInitDone ==
  [][\A t \in Threads :
       (\/ retains'[t] # retains[t]
        \/ releases'[t] # releases[t]
        \/ (pc[t] = "call" /\ proc' # proc))
       => init_token = "Ready"]_vars
C2_Witness == \E t \in waited : retains[t] + releases[t] >= 1 /\ initCount = 1

\* C3: once the gate is open, and whenever a thread is about to call through
\* swift_retain_n or swift_release_n, both pointers hold the addresses resolved
\* by name; a null pointer is never called.
C3_ResolvedWhenCalled ==
  /\ proc # "crashed"
  /\ init_token = "Ready" => Resolved
  /\ \A t \in Threads : pc[t] = "call" => Resolved
C3_Witness ==
  \E t, u \in Threads :
    t # u /\ retains[t] >= 1 /\ releases[u] >= 1 /\ init_token = "Ready"

\* C4: init_token only moves Uninitialized -> Initializing -> Ready, one step
\* at a time and never back; once it is Ready neither pointer is written again.
C4_TokenMonotonic ==
  [][/\ init_token' # init_token =>
          <<init_token, init_token'>> \in
            {<<"Uninitialized", "Initializing">>, <<"Initializing", "Ready">>}
     /\ init_token = "Ready" =>
          /\ swift_retain_n' = swift_retain_n
          /\ swift_release_n' = swift_release_n]_vars
\* (every thread has made its calls and none was ever blocked: all but the
\* first call arrived at the gate when the token was already Ready)
C4_Witness == init_token = "Ready" /\ AllDone /\ waited = {}

\* C5: when the runtime image is not resident the initializer never loads it,
\* no thread gets past the handle check, the token never becomes Ready, no
\* backing function is invoked and no call returns; the process aborts.
C5_MissingModuleAborts ==
  /\ [][~resident => ~resident']_vars
  /\ [](~resident =>
         /\ init_token # "Ready"
         /\ swift_retain_n = NULL /\ swift_release_n = NULL
         /\ \A t \in Threads :
              /\ calls[t] = 0 /\ retains[t] = 0 /\ releases[t] = 0
              /\ handle[t] = NULL
              /\ pc[t] \notin {"dlsym_retain", "dlsym_release", "once_done", "call"})
  /\ [](proc = "aborted" => ~resident)
  /\ [](proc # "crashed")
C5_Witness == proc = "aborted" /\ ~resident /\ waited # {}

C7_EveryCallCompletes ==
  \A t \in Threads :
    /\ (pc[t] # "idle") ~> (pc[t] = "idle" \/ proc = "aborted")
    /\ (pc[t] = "wait") ~> (pc[t] = "call" \/ proc = "aborted")
C7_Witness ==
  /\ proc = "running" /\ initCount = 1
  /\ \E t \in waited : calls[t] = MaxCalls /\ pc[t] = "idle"

=============================================================================
